---- MODULE Spec2Model ----
(***************************************************************************)
(* ClientManager (idb/grpc/management.py): resolution of a udid to a       *)
(* companion connection, spawn-on-demand, target listing with pruning,     *)
(* explicit connect / disconnect and kill, run by several ClientManager    *)
(* instances (separate CLI processes) over one shared CompanionSet.        *)
(*                                                                         *)
(* Every coroutine is cut at its await points: one action per segment.     *)
(***************************************************************************)
EXTENDS Naturals, FiniteSets, Sequences, TLC

VARIABLES
    registry,      \* CompanionSet contents: a set of CompanionInfo, one per address
    spawned,       \* companion processes ever launched: pid |-> [by, udid]
    alive,         \* pids of the companion processes not yet found to have exited
    hasCompanion,  \* per manager: self._companion is not None
    prune,         \* per manager: self._prune_dead_companion
    pc,            \* per manager: position of its coroutine
    loc,           \* per manager: the coroutine's locals and its outcome
    calls          \* number of calls made so far

vars == <<registry, spawned, alive, hasCompanion, prune, pc, loc, calls>>

\* ------------------------------------------------------------------ bounds
MaxPid == 2

\* calls made in one run, over all managers
MaxCalls == 3

\* ------------------------------------------------------------- constants
\* CompanionInfo.pid is None
NoPid == 0

Managers == {"m1", "m2"}

\* udids a caller may name; "mac" is the host machine itself
Udids == {"u1", "u2", "mac"}

\* what companion.list_targets(only=None) enumerates on this host
LocalUdids == {"u1"}

TcpHosts == {"hostA"}

Pids == 1..MaxPid

\* ------------------------------------------------------------- addresses
DomainSocketAddress(udid) == [kind |-> "sock", val |-> udid]

TCPAddress(host) == [kind |-> "tcp", val |-> host]

UdidDestination(udid) == [kind |-> "udid", val |-> udid]

NoUdid == [kind |-> "none", val |-> ""]

\* the sockets a companion can be spawned at, and the remote endpoints
Addresses ==
    {DomainSocketAddress(u) : u \in LocalUdids \cup {"mac"}} \cup {TCPAddress(h) : h \in TcpHosts}

IsAddress(destination) == destination.kind \in {"sock", "tcp"}

CompanionInfo(address, udid, is_local, pid) ==
    [address |-> address, udid |-> udid, is_local |-> is_local, pid |-> pid]

\* --------------------------------------------------- CompanionSet contract
get_companions == registry

add_companion(companion) ==
    {c \in registry : c.address # companion.address} \cup {companion}

remove_companion(destination) ==
    IF IsAddress(destination)
    THEN {c \in registry : c.address # destination}
    ELSE {c \in registry : c.udid # destination.val}

\* ------------------------------------------------------------ environment
\* a companion process listens on the domain socket derived from its udid.
\* A process may exit on its own at any time; nothing but a failed open or a
\* failed os.kill shows it, so the exit is taken where it is found out.
Listening(address) ==
    /\ address.kind = "sock"
    /\ \E p \in alive : spawned[p].udid = address.val

\* Client.build(address) can succeed: a local socket needs its process, a
\* remote endpoint is outside this host
Reachable(address) == address.kind = "tcp" \/ Listening(address)

\* ------------------------------------------------------------------ locals
IdleLoc ==
    [op        |-> "",
     arg       |-> NoUdid,
     cont      |-> "",
     companion |-> {},
     pending   |-> {},
     connected |-> {},
     dropped   |-> {},
     cleared   |-> {},
     killed    |-> {},
     local     |-> {},
     conns     |-> {},
     enum      |-> 0,
     launched  |-> 0,
     result    |-> "",
     ids       |-> {},
     ret       |-> {}]

Start(m, op, arg) == [IdleLoc EXCEPT !.op = op, !.arg = arg]

\* the call ends: its outcome stays for the caller, its working locals go
Finish(l, result) ==
    [l EXCEPT !.result = result, !.cont = "", !.companion = {}, !.pending = {},
              !.connected = {}, !.local = {}]

Init ==
    /\ registry = {}
    /\ spawned = <<>>
    /\ alive = {}
    /\ \E b \in BOOLEAN :
          /\ hasCompanion = [m \in Managers |-> m = "m1" \/ b]
          /\ prune = [m \in Managers |-> m = "m1" \/ b]
    /\ pc = [m \in Managers |-> "idle"]
    /\ loc = [m \in Managers |-> IdleLoc]
    /\ calls = 0

\* a caller invokes a method of manager m, whose previous call has ended
Call(m) ==
    /\ pc[m] \in {"idle", "done"}
    /\ calls < MaxCalls
    /\ calls' = calls + 1

Udid(m) == loc[m].arg.val

TheCompanion(m) == CHOOSE c \in loc[m].companion : TRUE

\* -------------------------------------------- _spawn_companion_server
\* up to the first await: the launcher check, and _local_target_type's
\* shortcut for "mac"
\* mutant: "mac" is looked up among the local targets like any udid
SpawnEnter_NoMacShortcut(m, l, cont) ==
    IF ~hasCompanion[m]
    THEN <<"done", Finish(l, "NoLauncherError")>>
    ELSE <<"sp_type", [l EXCEPT !.cont = cont]>>

SpawnEnter(m, l, cont) ==
    IF ~hasCompanion[m]
    THEN <<"done", Finish(l, "NoLauncherError")>>
    ELSE IF l.arg.val = "mac"
    THEN <<"sp_launch", [l EXCEPT !.cont = cont]>>
    ELSE <<"sp_type", [l EXCEPT !.cont = cont]>>

\* mutant: the test for an unknown udid is lost
TargetKnown_Always(udid) == TRUE

\* _local_target_type: the udid must be among the local targets
TargetKnown(udid) == udid \in LocalUdids

SpawnLocalTargetType(m) ==
    /\ pc[m] = "sp_type"
    /\ IF TargetKnown(Udid(m))
       THEN /\ pc' = [pc EXCEPT ![m] = "sp_launch"]
            /\ loc' = [loc EXCEPT ![m].enum = @ + 1]
       ELSE /\ pc' = [pc EXCEPT ![m] = "done"]
            /\ loc' = [loc EXCEPT ![m] =
                          Finish([@ EXCEPT !.enum = @ + 1], "UnknownDeviceError")]
    /\ UNCHANGED <<registry, spawned, alive, hasCompanion, prune, calls>>

\* mutant: the socket path is made from the process, not from the udid alone
SpawnedInfo_PerProcessPath(udid, pid) ==
    CompanionInfo(DomainSocketAddress(IF pid = 1 THEN udid ELSE "tmp"), udid, TRUE, pid)

\* mutant: the record carries another process's pid
SpawnedInfo_OtherPid(udid, pid) ==
    CompanionInfo(DomainSocketAddress(udid), udid, TRUE, pid + 1)

\* the CompanionInfo of a spawned companion: its socket, is_local, process.pid
SpawnedInfo(udid, pid) ==
    CompanionInfo(DomainSocketAddress(udid), udid, TRUE, pid)

\* companion.spawn_domain_sock_server: a new process, or a failure
SpawnLaunch(m) ==
    /\ pc[m] = "sp_launch"
    /\ \/ /\ Len(spawned) < MaxPid
          /\ LET pid == Len(spawned) + 1
                 info == SpawnedInfo(Udid(m), pid)
             IN /\ spawned' = Append(spawned, [by |-> m, udid |-> Udid(m)])
                /\ alive' = alive \cup {pid}
                /\ loc' = [loc EXCEPT ![m].launched = @ + 1,
                                      ![m].companion = {info}]
                /\ pc' = [pc EXCEPT ![m] = "sp_add"]
       \/ /\ loc' = [loc EXCEPT ![m] =
                        Finish([@ EXCEPT !.launched = @ + 1], "SpawnError")]
          /\ pc' = [pc EXCEPT ![m] = "done"]
          /\ UNCHANGED <<spawned, alive>>
    /\ UNCHANGED <<registry, hasCompanion, prune, calls>>

\* add_companion(companion_info), then back in the caller
SpawnAdd(m) ==
    /\ pc[m] = "sp_add"
    /\ registry' = add_companion(TheCompanion(m))
    /\ IF loc[m].cont = "fu_build"
       THEN /\ pc' = [pc EXCEPT ![m] = "fu_build"]
            /\ UNCHANGED loc
       ELSE /\ pc' = [pc EXCEPT ![m] = "done"]
            /\ loc' = [loc EXCEPT ![m] =
                          Finish([@ EXCEPT !.ret = loc[m].companion], "ok")]
    /\ UNCHANGED <<spawned, alive, hasCompanion, prune, calls>>

\* ------------------------------------------------------------- from_udid
\* companions = {companion.udid: companion for ...}: the dict's keys
Keys(companions) == {c.udid : c \in companions}

\* companions[udid]: of several entries with one udid the dict keeps the
\* last listed, whichever that is
ByUdid(companions, udid) == {c \in companions : c.udid = udid}

\* mutant: the sole-companion test lets several companions through
FromUdidBranch_AnySole(udid, companions) ==
    IF udid # NoUdid /\ udid.val \in Keys(companions) THEN "existing"
    ELSE IF udid # NoUdid THEN "spawn"
    ELSE IF Cardinality(Keys(companions)) >= 1 THEN "sole"
    ELSE "none"

\* mutant: a given udid is never looked up among the companions
FromUdidBranch_AlwaysSpawn(udid, companions) ==
    IF udid # NoUdid THEN "spawn"
    ELSE IF Cardinality(Keys(companions)) = 1 THEN "sole"
    ELSE IF Cardinality(Keys(companions)) = 0 THEN "none"
    ELSE "multiple"

FromUdidBranch(udid, companions) ==
    IF udid # NoUdid /\ udid.val \in Keys(companions) THEN "existing"
    ELSE IF udid # NoUdid THEN "spawn"
    ELSE IF Cardinality(Keys(companions)) = 1 THEN "sole"
    ELSE IF Cardinality(Keys(companions)) = 0 THEN "none"
    ELSE "multiple"

FromUdid(m, udid) ==
    /\ Call(m)
    /\ LET companions == get_companions
           branch == FromUdidBranch(udid, companions)
           l == Start(m, "from_udid", udid)
       IN CASE branch = "existing" ->
                 \E c \in ByUdid(companions, udid.val) :
                    /\ loc' = [loc EXCEPT ![m] = [l EXCEPT !.companion = {c}]]
                    /\ pc' = [pc EXCEPT ![m] = "fu_build"]
            [] branch = "spawn" ->
                 /\ loc' = [loc EXCEPT ![m] = SpawnEnter(m, l, "fu_build")[2]]
                 /\ pc' = [pc EXCEPT ![m] = SpawnEnter(m, l, "fu_build")[1]]
            [] branch = "sole" ->
                 \E c \in companions :
                    /\ loc' = [loc EXCEPT ![m] = [l EXCEPT !.companion = {c}]]
                    /\ pc' = [pc EXCEPT ![m] = "fu_build"]
            [] branch = "none" ->
                 /\ loc' = [loc EXCEPT ![m] = Finish(l, "NoTargetError")]
                 /\ pc' = [pc EXCEPT ![m] = "done"]
            [] OTHER ->
                 /\ loc' = [loc EXCEPT ![m] =
                               Finish([l EXCEPT !.ids = Keys(companions)],
                                      "AmbiguousTargetError")]
                 /\ pc' = [pc EXCEPT ![m] = "done"]
    /\ UNCHANGED <<registry, spawned, alive, hasCompanion, prune>>

\* mutant: a failed open removes the entry it was made to
FromUdidBuild_PrunesOnFailure(m) ==
    /\ pc[m] = "fu_build"
    /\ \/ /\ Reachable(TheCompanion(m).address)
          /\ loc' = [loc EXCEPT ![m].conns = {TheCompanion(m).address}]
          /\ pc' = [pc EXCEPT ![m] = "fu_yield"]
          /\ UNCHANGED registry
       \/ /\ loc' = [loc EXCEPT ![m] = Finish(@, "ConnectError")]
          /\ pc' = [pc EXCEPT ![m] = "done"]
          /\ registry' = remove_companion(TheCompanion(m).address)
    /\ UNCHANGED <<spawned, alive, hasCompanion, prune, calls>>

\* async with Client.build(address=companion.address): open, or fail
FromUdidBuild(m) ==
    /\ pc[m] = "fu_build"
    /\ \/ /\ Reachable(TheCompanion(m).address)
          /\ loc' = [loc EXCEPT ![m].conns = {TheCompanion(m).address}]
          /\ pc' = [pc EXCEPT ![m] = "fu_yield"]
       \/ /\ loc' = [loc EXCEPT ![m] = Finish(@, "ConnectError")]
          /\ pc' = [pc EXCEPT ![m] = "done"]
    /\ UNCHANGED <<registry, spawned, alive, hasCompanion, prune, calls>>

\* yield client: the caller's block runs, returns or raises, and the
\* context manager closes the connection
FromUdidYield(m) ==
    /\ pc[m] = "fu_yield"
    /\ \E r \in {"ok", "CallerError"} :
          loc' = [loc EXCEPT ![m] = Finish([@ EXCEPT !.conns = {}], r)]
    /\ pc' = [pc EXCEPT ![m] = "done"]
    /\ UNCHANGED <<registry, spawned, alive, hasCompanion, prune, calls>>

\* ----------------------------------------------------------- list_targets
OnlyFilters == {"none", "device"}

TargetTypeOf(udid) ==
    IF udid = "mac" THEN "mac" ELSE IF udid = "u1" THEN "simulator" ELSE "device"

NoAddress == [kind |-> "none", val |-> ""]

\* a TargetDescription: via is the companion that described it, NoAddress
\* for one the local enumerator listed
TargetDescription(udid, via) ==
    [udid |-> udid, target_type |-> TargetTypeOf(udid), via |-> via]

Matches(only, description) == only = "none" \/ description.target_type = only

\* _list_local_targets: nothing without a companion executable
ListLocalTargets(m, only) ==
    IF ~hasCompanion[m]
    THEN {}
    ELSE {d \in {TargetDescription(u, NoAddress) : u \in LocalUdids} : Matches(only, d)}

\* merge_connected_targets: one description per udid, the companion's
\* where there is one
MergeConnectedTargets(local_targets, connected_targets) ==
    LET udids == {d.udid : d \in connected_targets}
        picks == {f \in [udids -> connected_targets] : \A u \in udids : f[u].udid = u}
    IN {{f[u] : u \in udids} \cup {d \in local_targets : d.udid \notin udids} : f \in picks}

ListTargets(m, only) ==
    /\ Call(m)
    /\ loc' = [loc EXCEPT ![m] =
                  [Start(m, "list_targets", [kind |-> "only", val |-> only])
                      EXCEPT !.pending = get_companions,
                             !.local = ListLocalTargets(m, only)]]
    /\ pc' = [pc EXCEPT ![m] = "lt_describe"]
    /\ UNCHANGED <<registry, spawned, alive, hasCompanion, prune>>

\* mutant: the prune_dead_companion flag is not consulted
PruneDead_Always(m, companion) == remove_companion(companion.address)

\* mutant: the prune_dead_companion test is inverted
PruneDead_Inverted(m, companion) ==
    IF prune[m] THEN registry ELSE remove_companion(companion.address)

\* the except branch of _companion_to_target
PruneDead(m, companion) ==
    IF prune[m] THEN remove_companion(companion.address) ELSE registry

\* mutant: no except clause, a failed describe ends list_targets
CompanionToTarget_Raises(m, companion) ==
    /\ pc[m] = "lt_describe"
    /\ companion \in loc[m].pending
    /\ \/ /\ Reachable(companion.address)
          /\ loc' = [loc EXCEPT ![m].pending = @ \ {companion},
                                ![m].connected = @ \cup
                                    {TargetDescription(companion.udid, companion.address)}]
          /\ UNCHANGED <<registry, pc>>
       \/ /\ loc' = [loc EXCEPT ![m] = Finish(@, "ConnectError")]
          /\ pc' = [pc EXCEPT ![m] = "done"]
          /\ UNCHANGED registry
    /\ UNCHANGED <<spawned, alive, hasCompanion, prune, calls>>

\* _companion_to_target, one task of the gather; the tasks settle in any
\* order, with a description (connected) or with None (dropped)
CompanionToTarget(m, companion) ==
    /\ pc[m] = "lt_describe"
    /\ companion \in loc[m].pending
    /\ \/ /\ Reachable(companion.address)
          /\ loc' = [loc EXCEPT ![m].pending = @ \ {companion},
                                ![m].connected = @ \cup
                                    {TargetDescription(companion.udid, companion.address)}]
          /\ UNCHANGED registry
       \/ /\ loc' = [loc EXCEPT ![m].pending = @ \ {companion},
                                ![m].dropped = @ \cup {companion}]
          /\ registry' = PruneDead(m, companion)
    /\ UNCHANGED <<spawned, alive, hasCompanion, prune, pc, calls>>

\* mutant: the merge runs as soon as one task has settled
ListTargetsMerge_FirstCompleted(m) ==
    /\ pc[m] = "lt_describe"
    /\ loc[m].connected \cup loc[m].dropped # {} \/ loc[m].pending = {}
    /\ \E merged \in MergeConnectedTargets(loc[m].local, loc[m].connected) :
          loc' = [loc EXCEPT ![m] = Finish([@ EXCEPT !.ret = merged], "ok")]
    /\ pc' = [pc EXCEPT ![m] = "done"]
    /\ UNCHANGED <<registry, spawned, alive, hasCompanion, prune, calls>>

\* mutant: the two lists are concatenated, not merged
ListTargetsMerge_Concat(m) ==
    /\ pc[m] = "lt_describe"
    /\ loc[m].pending = {}
    /\ loc' = [loc EXCEPT ![m] =
                  Finish([@ EXCEPT !.ret = loc[m].local \cup loc[m].connected], "ok")]
    /\ pc' = [pc EXCEPT ![m] = "done"]
    /\ UNCHANGED <<registry, spawned, alive, hasCompanion, prune, calls>>

\* every task has settled: merge and return
ListTargetsMerge(m) ==
    /\ pc[m] = "lt_describe"
    /\ loc[m].pending = {}
    /\ \E merged \in MergeConnectedTargets(loc[m].local, loc[m].connected) :
          loc' = [loc EXCEPT ![m] = Finish([@ EXCEPT !.ret = merged], "ok")]
    /\ pc' = [pc EXCEPT ![m] = "done"]
    /\ UNCHANGED <<registry, spawned, alive, hasCompanion, prune, calls>>

\* ----------------------------------------------------- connect, disconnect
Destinations == Addresses \cup {UdidDestination(u) : u \in Udids}

\* the udid a companion reports in the handshake
ReportedUdids(address) ==
    IF address.kind = "sock" THEN {address.val} ELSE {"u1"}

Connect(m, destination) ==
    /\ Call(m)
    /\ LET l == Start(m, "connect", destination)
       IN IF IsAddress(destination)
          THEN \/ /\ Reachable(destination)
                  /\ \E u \in ReportedUdids(destination) :
                        loc' = [loc EXCEPT ![m] = [l EXCEPT !.companion =
                                   {CompanionInfo(destination, u, FALSE, NoPid)}]]
                  /\ pc' = [pc EXCEPT ![m] = "cn_add"]
               \/ /\ loc' = [loc EXCEPT ![m] = Finish(l, "ConnectError")]
                  /\ pc' = [pc EXCEPT ![m] = "done"]
          ELSE /\ loc' = [loc EXCEPT ![m] = SpawnEnter(m, l, "cn_ret")[2]]
               /\ pc' = [pc EXCEPT ![m] = SpawnEnter(m, l, "cn_ret")[1]]
    /\ UNCHANGED <<registry, spawned, alive, hasCompanion, prune>>

ConnectAdd(m) ==
    /\ pc[m] = "cn_add"
    /\ registry' = add_companion(TheCompanion(m))
    /\ loc' = [loc EXCEPT ![m] = Finish([@ EXCEPT !.ret = loc[m].companion], "ok")]
    /\ pc' = [pc EXCEPT ![m] = "done"]
    /\ UNCHANGED <<spawned, alive, hasCompanion, prune, calls>>

\* how a registry entry is named by a destination: its address, or its udid
Names(destination, companion) ==
    IF IsAddress(destination)
    THEN companion.address = destination
    ELSE companion.udid = destination.val

\* mutant: removing what is not registered is an error
Disconnect_RaisesIfAbsent(m, destination) ==
    /\ Call(m)
    /\ registry' = remove_companion(destination)
    /\ loc' = [loc EXCEPT ![m] =
                  Finish(Start(m, "disconnect", destination),
                         IF \E c \in registry : Names(destination, c)
                         THEN "ok" ELSE "NotRegisteredError")]
    /\ pc' = [pc EXCEPT ![m] = "done"]
    /\ UNCHANGED <<spawned, alive, hasCompanion, prune>>

Disconnect(m, destination) ==
    /\ Call(m)
    /\ registry' = remove_companion(destination)
    /\ loc' = [loc EXCEPT ![m] = Finish(Start(m, "disconnect", destination), "ok")]
    /\ pc' = [pc EXCEPT ![m] = "done"]
    /\ UNCHANGED <<spawned, alive, hasCompanion, prune>>

\* ------------------------------------------------------------------- kill
Kill(m) ==
    /\ Call(m)
    /\ loc' = [loc EXCEPT ![m] = [Start(m, "kill", NoUdid) EXCEPT !.cleared = registry,
                                                               !.pending = registry]]
    /\ registry' = {}
    /\ pc' = [pc EXCEPT ![m] = "kill_loop"]
    /\ UNCHANGED <<spawned, alive, hasCompanion, prune>>

\* mutant: the test for a missing pid is lost
SkipsKill_Never(companion) == FALSE

\* if pid is None: continue
SkipsKill(companion) == companion.pid = NoPid

\* one turn of the loop over cleared (pending: the entries still to come),
\* in whatever order the list has.
\* os.kill(pid, SIGKILL) ends the process, or raises ProcessLookupError when
\* the pid no longer exists: the process was killed before, or has exited on
\* its own, which shows only here
KillNext(m, companion) ==
    /\ pc[m] = "kill_loop"
    /\ companion \in loc[m].pending
    /\ IF SkipsKill(companion)
       THEN /\ loc' = [loc EXCEPT ![m].pending = @ \ {companion}]
            /\ UNCHANGED <<alive, pc>>
       ELSE \/ /\ companion.pid \in alive
               /\ alive' = alive \ {companion.pid}
               /\ loc' = [loc EXCEPT ![m].pending = @ \ {companion},
                                     ![m].killed = @ \cup {companion.pid}]
               /\ UNCHANGED pc
            \/ /\ alive' = alive \ {companion.pid}
               /\ loc' = [loc EXCEPT ![m] = Finish(@, "ProcessLookupError")]
               /\ pc' = [pc EXCEPT ![m] = "done"]
    /\ UNCHANGED <<registry, spawned, hasCompanion, prune, calls>>

KillDone(m) ==
    /\ pc[m] = "kill_loop"
    /\ loc[m].pending = {}
    /\ loc' = [loc EXCEPT ![m] = Finish(@, "ok")]
    /\ pc' = [pc EXCEPT ![m] = "done"]
    /\ UNCHANGED <<registry, spawned, alive, hasCompanion, prune, calls>>

\* ------------------------------------------------------------------- spec
Next ==
    \/ \E m \in Managers :
          \/ \E udid \in {NoUdid} \cup {UdidDestination(u) : u \in Udids} : FromUdid(m, udid)
          \/ SpawnLocalTargetType(m)
          \/ SpawnLaunch(m)
          \/ SpawnAdd(m)
          \/ FromUdidBuild(m)
          \/ FromUdidYield(m)
          \/ \E only \in OnlyFilters : ListTargets(m, only)
          \/ \E companion \in loc[m].pending : CompanionToTarget(m, companion)
          \/ ListTargetsMerge(m)
          \/ \E destination \in Destinations : Connect(m, destination)
          \/ ConnectAdd(m)
          \/ \E destination \in Destinations : Disconnect(m, destination)
          \/ Kill(m)
          \/ \E companion \in loc[m].pending : KillNext(m, companion)
          \/ KillDone(m)

Spec == Init /\ [][Next]_vars

\* ------------------------------------------------- connections in view
\* Next takes each `async with Client.build(...)` of _companion_to_target
\* and of connect in one step, the connection opened and closed within it.
\* ScopedNext cuts them at their awaits, so that an open connection is a
\* state, and lets a caller cancel a call at any await.

\* _companion_to_target, Client.build entered: the connection is open
DescribeOpen(m, companion) ==
    /\ pc[m] = "lt_describe"
    /\ companion \in loc[m].pending
    /\ companion.address \notin loc[m].conns
    /\ Reachable(companion.address)
    /\ loc' = [loc EXCEPT ![m].conns = @ \cup {companion.address}]
    /\ UNCHANGED <<registry, spawned, alive, hasCompanion, prune, pc, calls>>

\* mutant: a describe that fails leaves its connection open
DescribeSettle_LeakOnFailure(m, companion) ==
    /\ pc[m] = "lt_describe"
    /\ companion \in loc[m].pending
    /\ \/ /\ companion.address \in loc[m].conns
          /\ loc' = [loc EXCEPT ![m].pending = @ \ {companion},
                                ![m].conns = @ \ {companion.address},
                                ![m].connected = @ \cup
                                    {TargetDescription(companion.udid, companion.address)}]
          /\ UNCHANGED registry
       \/ /\ loc' = [loc EXCEPT ![m].pending = @ \ {companion},
                                ![m].dropped = @ \cup {companion}]
          /\ registry' = PruneDead(m, companion)
    /\ UNCHANGED <<spawned, alive, hasCompanion, prune, pc, calls>>

\* _companion_to_target, the task settles: describe answers over the open
\* connection, or Client.build or describe raises; either way the
\* `async with` is left and the connection, if one was opened, is closed
DescribeSettle(m, companion) ==
    /\ pc[m] = "lt_describe"
    /\ companion \in loc[m].pending
    /\ \/ /\ companion.address \in loc[m].conns
          /\ loc' = [loc EXCEPT ![m].pending = @ \ {companion},
                                ![m].conns = @ \ {companion.address},
                                ![m].connected = @ \cup
                                    {TargetDescription(companion.udid, companion.address)}]
          /\ UNCHANGED registry
       \/ /\ loc' = [loc EXCEPT ![m].pending = @ \ {companion},
                                ![m].conns = @ \ {companion.address},
                                ![m].dropped = @ \cup {companion}]
          /\ registry' = PruneDead(m, companion)
    /\ UNCHANGED <<spawned, alive, hasCompanion, prune, pc, calls>>

\* mutant: the record is made up whether or not the handshake succeeds
ConnectOpen_Unchecked(m, destination) ==
    /\ Call(m)
    /\ IsAddress(destination)
    /\ \E u \in ReportedUdids(destination) :
          loc' = [loc EXCEPT ![m] = [Start(m, "connect", destination) EXCEPT
                     !.companion = {CompanionInfo(destination, u, FALSE, NoPid)},
                     !.conns = IF Reachable(destination) THEN {destination} ELSE {}]]
    /\ pc' = [pc EXCEPT ![m] = "cn_close"]
    /\ UNCHANGED <<registry, spawned, alive, hasCompanion, prune>>

\* connect(address), Client.build entered: the handshake connection is open
\* and client.companion is read, or the open fails
ConnectOpen(m, destination) ==
    /\ Call(m)
    /\ IsAddress(destination)
    /\ LET l == Start(m, "connect", destination)
       IN \/ /\ Reachable(destination)
             /\ \E u \in ReportedUdids(destination) :
                   loc' = [loc EXCEPT ![m] = [l EXCEPT
                              !.companion = {CompanionInfo(destination, u, FALSE, NoPid)},
                              !.conns = {destination}]]
             /\ pc' = [pc EXCEPT ![m] = "cn_close"]
          \/ /\ loc' = [loc EXCEPT ![m] = Finish(l, "ConnectError")]
             /\ pc' = [pc EXCEPT ![m] = "done"]
    /\ UNCHANGED <<registry, spawned, alive, hasCompanion, prune>>

\* connect(address), the `async with` is left before add_companion
ConnectClose(m) ==
    /\ pc[m] = "cn_close"
    /\ loc' = [loc EXCEPT ![m].conns = {}]
    /\ pc' = [pc EXCEPT ![m] = "cn_add"]
    /\ UNCHANGED <<registry, spawned, alive, hasCompanion, prune, calls>>

\* the awaits of from_udid, list_targets, connect and the spawn; kill has
\* none after its clear
Awaits == {"sp_type", "sp_launch", "sp_add", "fu_build", "fu_yield",
           "lt_describe", "cn_close", "cn_add"}

\* the caller cancels or abandons the call: CancelledError is raised at the
\* await and every `async with` on the way out closes its connection
Cancel(m) ==
    /\ pc[m] \in Awaits
    /\ loc' = [loc EXCEPT ![m] = Finish([@ EXCEPT !.conns = {}], "CancelledError")]
    /\ pc' = [pc EXCEPT ![m] = "done"]
    /\ UNCHANGED <<registry, spawned, alive, hasCompanion, prune, calls>>

\* the finer steps multiply the interleavings: the calls made under
\* ScopedNext have a budget of their own
MaxScopedCalls == 2

ScopedCall == calls < MaxScopedCalls

ScopedNext ==
    \/ \E m \in Managers :
          \/ ScopedCall /\ \E udid \in {NoUdid} \cup {UdidDestination(u) : u \in Udids} :
                              FromUdid(m, udid)
          \/ SpawnLocalTargetType(m)
          \/ SpawnLaunch(m)
          \/ SpawnAdd(m)
          \/ FromUdidBuild(m)
          \/ FromUdidYield(m)
          \/ ScopedCall /\ \E only \in OnlyFilters : ListTargets(m, only)
          \/ \E companion \in loc[m].pending : DescribeOpen(m, companion)
          \/ \E companion \in loc[m].pending : DescribeSettle(m, companion)
          \/ ListTargetsMerge(m)
          \/ ScopedCall /\ \E destination \in Addresses : ConnectOpen(m, destination)
          \/ ConnectClose(m)
          \/ ScopedCall /\ \E u \in Udids : Connect(m, UdidDestination(u))
          \/ ConnectAdd(m)
          \/ ScopedCall /\ \E destination \in Destinations : Disconnect(m, destination)
          \/ ScopedCall /\ Kill(m)
          \/ \E companion \in loc[m].pending : KillNext(m, companion)
          \/ KillDone(m)
          \/ Cancel(m)

ScopedSpec == Init /\ [][ScopedNext]_vars

\* ----------------------------------------------------------------- claims
FromUdidCall(m) == loc[m].op = "from_udid"

NoUdidCall(m) == FromUdidCall(m) /\ loc[m].arg = NoUdid

\* C1 (as amended): from_udid(None) decides on the registry as it is at the
\* call: entries with exactly one distinct udid (one entry, or several at
\* different addresses with the same udid) - it goes on to open a connection
\* to one of these entries, and the connection it opens is to that entry's
\* address; no entry - NoTargetError; more than one distinct udid -
\* AmbiguousTargetError naming every distinct udid. In both error cases no
\* connection is opened and the launcher is not invoked; the registry and
\* the processes are untouched.
C1_ResolveNoUdid ==
    /\ [](\A m \in Managers :
            NoUdidCall(m) /\ loc[m].conns # {} =>
               pc[m] = "fu_yield" /\ loc[m].conns = {TheCompanion(m).address})
    /\ [][\A m \in Managers :
            FromUdid(m, NoUdid) =>
               LET udids == {c.udid : c \in registry}
               IN /\ registry' = registry /\ spawned' = spawned /\ alive' = alive
                  /\ loc'[m].launched = 0 /\ loc'[m].conns = {}
                  /\ Cardinality(udids) = 1 =>
                        /\ pc'[m] = "fu_build"
                        /\ \E c \in registry : loc'[m].companion = {c}
                  /\ Cardinality(udids) = 0 =>
                        /\ pc'[m] = "done"
                        /\ loc'[m].result = "NoTargetError"
                  /\ Cardinality(udids) > 1 =>
                        /\ pc'[m] = "done"
                        /\ loc'[m].result = "AmbiguousTargetError"
                        /\ loc'[m].ids = udids]_vars

\* C1, a case of it: two companions for two udids, and the error names both
C1_Witness ==
    \E m \in Managers :
       /\ NoUdidCall(m)
       /\ loc[m].result = "AmbiguousTargetError"
       /\ loc[m].ids = {"u1", "mac"}

\* C1 as stated: more than one entry always gives AmbiguousTargetError
C1_AsStated ==
    [][\A m \in Managers :
          FromUdid(m, NoUdid) /\ Cardinality(registry) > 1 =>
             loc'[m].result = "AmbiguousTargetError"]_vars

ListCall(m) == loc[m].op = "list_targets"

\* C2: pruning by list_targets, with pruning enabled. A task whose describe
\* fails removes the registry entry at its companion's address and nothing
\* else, and adds no description; a task whose describe succeeds leaves the
\* registry as it is; the merge leaves the registry as it is and takes
\* companion descriptions from the successful tasks only, so the result
\* holds no description from a dropped companion.
C2_Pruning ==
    /\ [](\A m \in Managers :
            ListCall(m) /\ pc[m] = "done" =>
               \A d \in loc[m].ret : \A c \in loc[m].dropped : d.via # c.address)
    /\ [][\A m \in Managers : \A c \in loc[m].pending :
            CompanionToTarget(m, c) /\ prune[m] =>
               IF c \in loc'[m].dropped
               THEN /\ registry' = {e \in registry : e.address # c.address}
                    /\ loc'[m].connected = loc[m].connected
               ELSE /\ registry' = registry
                    /\ loc'[m].connected =
                          loc[m].connected \cup {TargetDescription(c.udid, c.address)}]_vars
    /\ [][\A m \in Managers :
            ListTargetsMerge(m) =>
               /\ registry' = registry
               /\ \A d \in loc'[m].ret : d.via = NoAddress \/ d \in loc[m].connected]_vars

\* C2, a case of it: one companion dropped and gone from the registry, one
\* described, in the result and still registered
C2_Witness ==
    \E m \in Managers :
       /\ ListCall(m) /\ pc[m] = "done" /\ prune[m]
       /\ \E c \in loc[m].dropped : \A e \in registry : e.address # c.address
       /\ \E d \in loc[m].ret : \E e \in registry : e.address = d.via

KillCall(m) == loc[m].op = "kill"

PidsOf(companions) == {c.pid : c \in companions} \ {NoPid}

\* C3: kill. Its clear empties the registry and hands kill what it held;
\* no later step of kill touches the registry; an entry without a pid gets
\* no termination request; kill signals no pid but those of the cleared
\* entries, and when it has returned it has signalled every one of them.
C3_KillSemantics ==
    /\ [](\A m \in Managers :
            KillCall(m) =>
               /\ loc[m].killed \subseteq PidsOf(loc[m].cleared)
               /\ pc[m] = "done" /\ loc[m].result = "ok" =>
                     loc[m].killed = PidsOf(loc[m].cleared))
    /\ [][\A m \in Managers :
            Kill(m) => registry' = {} /\ loc'[m].cleared = registry]_vars
    /\ [][\A m \in Managers : \A c \in loc[m].pending :
            KillNext(m, c) =>
               /\ registry' = registry
               /\ c.pid = NoPid =>
                     /\ alive' = alive
                     /\ loc'[m].killed = loc[m].killed
                     /\ pc'[m] = pc[m]]_vars
    /\ [][\A m \in Managers : KillDone(m) => registry' = registry]_vars

\* C3, a case of it: an entry without a pid and one with a pid cleared, the
\* pid signalled, the registry empty
C3_Witness ==
    \E m \in Managers :
       /\ KillCall(m) /\ pc[m] = "done" /\ loc[m].result = "ok"
       /\ \E c \in loc[m].cleared : c.pid = NoPid
       /\ loc[m].killed # {}
       /\ registry = {}

\* C4 as stated: kill does not raise, and every cleared entry with a pid
\* but the one whose termination failed gets its termination request
C4_AsStated ==
    \A m \in Managers :
       KillCall(m) /\ pc[m] = "done" =>
          /\ loc[m].result = "ok"
          /\ Cardinality(PidsOf(loc[m].cleared) \ loc[m].killed) <= 1

\* C5 as stated: a manager's kill signals only processes this same manager
\* spawned
C5_AsStated ==
    \A m \in Managers : \A p \in loc[m].killed : spawned[p].by = m

\* C5 (as amended): a registry record carries a pid only if it is the record
\* of a companion some manager sharing the registry spawned (its pid, its
\* udid, its socket); a record registered by connect-by-address carries
\* none; and every pid a kill signals is the pid of such a record among
\* those it cleared - whichever manager spawned it.
C5_KillsOnlySpawned ==
    /\ \A c \in registry :
          c.pid # NoPid =>
             /\ c.pid \in 1..Len(spawned)
             /\ c.udid = spawned[c.pid].udid
             /\ c.address = DomainSocketAddress(c.udid)
             /\ c.is_local
    /\ \A m \in Managers : \A p \in loc[m].killed :
          /\ p \in 1..Len(spawned)
          /\ \E c \in loc[m].cleared : c.pid = p /\ c.udid = spawned[p].udid

\* C5, a case of it: a kill that signalled a process another manager
\* spawned, and cleared a pid-less record without signalling anything for it
C5_Witness ==
    \E m \in Managers :
       /\ KillCall(m) /\ pc[m] = "done" /\ loc[m].result = "ok"
       /\ \E p \in loc[m].killed : spawned[p].by # m
       /\ \E c \in loc[m].cleared : c.pid = NoPid

SpawnErrors == {"NoLauncherError", "UnknownDeviceError", "SpawnError"}

\* C6: a failing spawn. Without a launcher it fails before the enumerator
\* or the launcher is consulted; for a udid the enumerator does not list
\* (and that is not "mac") it fails before the launcher is invoked, so the
\* launcher only ever runs for a listed udid or "mac"; a launcher failure
\* ends the call with that error. Every step of the spawn path up to the
\* launch leaves the registry as it is, and the one step that writes the
\* registry never ends in a spawn error: a failed spawn registers nothing.
C6_SpawnFailure ==
    /\ [](\A m \in Managers :
            /\ loc[m].result = "NoLauncherError" =>
                  pc[m] = "done" /\ loc[m].enum = 0 /\ loc[m].launched = 0
            /\ loc[m].result = "UnknownDeviceError" =>
                  pc[m] = "done" /\ loc[m].launched = 0
            /\ loc[m].result = "SpawnError" => pc[m] = "done"
            /\ loc[m].enum > 0 => hasCompanion[m]
            /\ loc[m].launched > 0 =>
                  hasCompanion[m] /\ Udid(m) \in LocalUdids \cup {"mac"})
    /\ [][\A m \in Managers :
            (\/ \E d \in Destinations : Connect(m, d)
             \/ \E u \in Udids : FromUdid(m, UdidDestination(u))
             \/ SpawnLocalTargetType(m)
             \/ SpawnLaunch(m))
               => registry' = registry]_vars
    /\ [][\A m \in Managers :
            SpawnAdd(m) => loc'[m].result \notin SpawnErrors]_vars

\* C6, a case of it: the launcher failed for one manager, the other has no
\* launcher, and nothing is registered
C6_Witness ==
    /\ \E m \in Managers : loc[m].result = "SpawnError" /\ loc[m].launched = 1
    /\ \E m \in Managers : loc[m].result = "NoLauncherError"
    /\ registry = {}

\* C7: from_udid with a udid. It takes the spawn path exactly when, at the
\* call, no registry entry has that udid. With an entry: it goes on to open
\* a connection to such an entry's address, launches nothing and leaves the
\* registry as it is. With none: it launches at most once, registers the
\* record of the process it launched, and the connection it opens is to
\* that record's address.
C7_ResolveUdid ==
    /\ [](\A m \in Managers :
            FromUdidCall(m) /\ loc[m].arg # NoUdid =>
               /\ loc[m].launched <= 1
               /\ pc[m] \in {"fu_build", "fu_yield"} =>
                     /\ TheCompanion(m).udid = Udid(m)
                     /\ loc[m].cont = "" => loc[m].launched = 0
                     /\ loc[m].cont # "" =>
                           /\ loc[m].launched = 1
                           /\ TheCompanion(m).address = DomainSocketAddress(Udid(m))
                           /\ TheCompanion(m).pid \in 1..Len(spawned)
                           /\ spawned[TheCompanion(m).pid] = [by |-> m, udid |-> Udid(m)]
               /\ loc[m].conns # {} =>
                     pc[m] = "fu_yield" /\ loc[m].conns = {TheCompanion(m).address})
    /\ [][\A m \in Managers : \A u \in Udids :
            FromUdid(m, UdidDestination(u)) =>
               /\ registry' = registry /\ spawned' = spawned
               /\ IF \E c \in registry : c.udid = u
                  THEN /\ pc'[m] = "fu_build"
                       /\ loc'[m].cont = ""
                       /\ \E c \in registry : c.udid = u /\ loc'[m].companion = {c}
                  ELSE /\ loc'[m].companion = {}
                       /\ \/ pc'[m] \in {"sp_type", "sp_launch"} /\ loc'[m].cont = "fu_build"
                          \/ pc'[m] = "done" /\ loc'[m].result = "NoLauncherError"]_vars
    /\ [][\A m \in Managers :
            SpawnAdd(m) /\ FromUdidCall(m) =>
               /\ pc'[m] = "fu_build"
               /\ registry' = {c \in registry : c.address # TheCompanion(m).address}
                                 \cup {TheCompanion(m)}]_vars
    /\ [][\A m \in Managers :
            FromUdidBuild(m) \/ FromUdidYield(m) =>
               registry' = registry /\ spawned' = spawned]_vars

\* C7, a case of it: one manager spawned a companion for a udid and is
\* connected to it, the other found that entry and is connected to it too
C7_Witness ==
    \E m \in Managers, o \in Managers :
       /\ FromUdidCall(m) /\ pc[m] = "fu_yield" /\ loc[m].launched = 1
       /\ FromUdidCall(o) /\ pc[o] = "fu_yield" /\ loc[o].launched = 0
       /\ loc[o].arg = loc[m].arg
       /\ loc[o].conns = loc[m].conns

\* C8 as stated, for a spawn made by from_udid (which found no entry for the
\* udid when it was called, so a record it replaces was registered by a
\* spawn running at the same time): when its registration replaces a record
\* that carries a pid, that process has been torn down - the losing
\* companion is not left running with no record of its pid
C8_AsStated ==
    [][\A m \in Managers :
          SpawnAdd(m) /\ FromUdidCall(m) =>
             \A c \in registry \ registry' : c.pid # NoPid => c.pid \notin alive']_vars

\* C9 as stated: connect with a udid the registry already has an entry for
\* launches nothing and returns the existing record
C9_AsStated ==
    [][\A m \in Managers : \A u \in Udids :
          Connect(m, UdidDestination(u)) /\ (\E c \in registry : c.udid = u) =>
             /\ pc'[m] = "done"
             /\ loc'[m].result = "ok"
             /\ loc'[m].ret \subseteq registry /\ loc'[m].ret # {}]_vars

\* C10 as stated: when disconnect removes a record that carries a pid, that
\* process gets a termination request, as under kill
C10_AsStated ==
    [][\A m \in Managers : \A d \in Destinations :
          Disconnect(m, d) =>
             \A c \in registry \ registry' : c.pid # NoPid => c.pid \notin alive']_vars

DisconnectCall(m) == loc[m].op = "disconnect"

\* C11: disconnect is idempotent. Every disconnect ends without an error
\* and leaves no entry the destination names, every other entry where it
\* was; one made when no entry is named (the destination was never
\* registered, or a disconnect has removed it already) leaves the registry
\* exactly as it is.
C11_DisconnectIdempotent ==
    /\ [](\A m \in Managers : DisconnectCall(m) => pc[m] = "done" /\ loc[m].result = "ok")
    /\ [][\A m \in Managers : \A d \in Destinations :
            Disconnect(m, d) =>
               /\ loc'[m].result = "ok"
               /\ \A c \in registry' : ~Names(d, c)
               /\ registry' \subseteq registry
               /\ \A c \in registry : ~Names(d, c) => c \in registry'
               /\ (\A c \in registry : ~Names(d, c)) => registry' = registry]_vars

\* C11, a case of it: a spawned companion's address disconnected by one
\* manager and then once more by the other
C11_Witness ==
    \E a \in Addresses :
       /\ \A m \in Managers :
             DisconnectCall(m) /\ loc[m].arg = a /\ loc[m].result = "ok"
       /\ \E p \in alive : DomainSocketAddress(spawned[p].udid) = a
       /\ \A c \in registry : c.address # a

UdidsOf(descriptions) == {d.udid : d \in descriptions}

\* C12: list_targets never surfaces a describe failure. A task whose
\* describe fails leaves list_targets running, with no error; list_targets
\* cannot end but by its merge, which returns normally with a description
\* for every udid of the local targets and of the companions described,
\* and for no other.
C12_DescribeFailureContained ==
    /\ [](\A m \in Managers :
            ListCall(m) => loc[m].result = IF pc[m] = "done" THEN "ok" ELSE "")
    /\ [][\A m \in Managers : \A c \in loc[m].pending :
            CompanionToTarget(m, c) =>
               /\ pc'[m] = "lt_describe"
               /\ loc'[m].result = ""
               /\ loc'[m].pending = loc[m].pending \ {c}]_vars
    /\ [][\A m \in Managers :
            ListCall(m) /\ pc[m] # "done" /\ pc'[m] = "done" =>
               /\ ListTargetsMerge(m)
               /\ UdidsOf(loc'[m].ret) =
                     UdidsOf(loc[m].local) \cup UdidsOf(loc[m].connected)]_vars

\* C12, a case of it: list_targets has returned with the description of one
\* companion and the local targets, another companion's describe having
\* failed
C12_Witness ==
    \E m \in Managers :
       /\ ListCall(m) /\ pc[m] = "done" /\ loc[m].result = "ok"
       /\ loc[m].dropped # {}
       /\ \E d \in loc[m].ret : d.via = NoAddress
       /\ \E d \in loc[m].ret : d.via # NoAddress

\* C13: the result of list_targets holds at most one description per udid,
\* two registry entries at different addresses that report the same udid
\* included; for a udid that a described companion reports, the one
\* description is a companion's, never the local enumerator's.
C13_OnePerUdid ==
    /\ [](\A m \in Managers :
            ListCall(m) /\ pc[m] = "done" =>
               \A d1, d2 \in loc[m].ret : d1.udid = d2.udid => d1 = d2)
    /\ [][\A m \in Managers :
            ListTargetsMerge(m) =>
               \A d \in loc'[m].ret :
                  d.via = NoAddress => d.udid \notin UdidsOf(loc[m].connected)]_vars

\* C13, a case of it: the local enumerator and two registered companions at
\* different addresses all report one udid, both companions are described,
\* and the result is a single description, a companion's
C13_Witness ==
    \E m \in Managers : \E c1, c2 \in registry :
       /\ ListCall(m) /\ pc[m] = "done" /\ hasCompanion[m]
       /\ loc[m].arg.val = "none" /\ loc[m].dropped = {}
       /\ c1.address # c2.address /\ c1.udid = c2.udid /\ c1.udid \in LocalUdids
       /\ \E d \in loc[m].ret : loc[m].ret = {d} /\ d.udid = c1.udid /\ d.via # NoAddress

\* C14: the filter of list_targets holds of the whole result: every
\* description returned satisfies it, the local enumerator's and a
\* connected companion's alike.
C14_AsStated ==
    \A m \in Managers :
       ListCall(m) /\ pc[m] = "done" =>
          \A d \in loc[m].ret : Matches(loc[m].arg.val, d)

ConnectAddressCall(m) == loc[m].op = "connect" /\ IsAddress(loc[m].arg)

\* C15: connect(address) registers only on a successful handshake. The
\* handshake touches no registry entry; when it fails, connect ends there
\* with the connect error; closing the connection and a cancellation touch
\* no entry either; the one registry step of connect comes after the
\* handshake connection is closed and upserts exactly one record, keyed by
\* the address given, carrying the udid the companion reported and no pid,
\* which is the record returned; connect never returns with the connection
\* open.
C15_ConnectRegistersOnHandshake ==
    /\ [](\A m \in Managers :
            ConnectAddressCall(m) /\ pc[m] \in {"cn_add", "done"} => loc[m].conns = {})
    /\ [][\A m \in Managers : \A d \in Addresses :
            ConnectOpen(m, d) =>
               /\ registry' = registry
               /\ IF Reachable(d)
                  THEN \/ pc'[m] = "cn_close" /\ loc'[m].conns = {d}
                       \/ pc'[m] = "done" /\ loc'[m].result = "ConnectError"
                  ELSE pc'[m] = "done" /\ loc'[m].result = "ConnectError"]_vars
    /\ [][\A m \in Managers :
            ConnectClose(m) \/ (Cancel(m) /\ ConnectAddressCall(m)) =>
               registry' = registry /\ loc'[m].conns = {}]_vars
    /\ [][\A m \in Managers :
            ConnectAdd(m) /\ ConnectAddressCall(m) =>
               \E u \in ReportedUdids(loc[m].arg) :
                  LET record == CompanionInfo(loc[m].arg, u, FALSE, NoPid)
                  IN /\ registry' = {c \in registry : c.address # loc[m].arg} \cup {record}
                     /\ loc'[m].ret = {record}
                     /\ loc'[m].result = "ok"]_vars

\* C15, a case of it: connect(address) has returned the record it put in
\* the place of the record a spawn had registered at that address
C15_Witness ==
    \E m \in Managers : \E c \in registry :
       /\ ConnectAddressCall(m) /\ pc[m] = "done" /\ loc[m].result = "ok"
       /\ loc[m].ret = {c} /\ c.address = loc[m].arg /\ c.pid = NoPid
       /\ \E p \in alive : DomainSocketAddress(spawned[p].udid) = c.address

Returned(m) == pc[m] \in {"idle", "done"}

\* C16: connections are scoped. A manager has a connection open only inside
\* the block that opened it: from_udid while its caller uses the client,
\* and then to the resolved companion alone; list_targets for describe
\* tasks that have not settled; connect(address) until its handshake block
\* is left. Whenever a call has ended, by return, by an error of the
\* caller's, after failed describes or by cancellation, the manager has no
\* connection open.
C16_ScopedConnections ==
    \A m \in Managers :
       /\ Returned(m) => loc[m].conns = {}
       /\ loc[m].conns # {} => pc[m] \in {"fu_yield", "lt_describe", "cn_close"}
       /\ pc[m] = "fu_yield" => loc[m].conns = {TheCompanion(m).address}
       /\ pc[m] = "lt_describe" =>
             loc[m].conns \subseteq {c.address : c \in loc[m].pending}
       /\ pc[m] = "cn_close" => loc[m].conns = {loc[m].arg}

\* C16, a case of it: one manager's from_udid ended by its caller's error,
\* the other's list_targets returned after a describe failed, a third call
\* was cancelled or not, and no connection is open
C16_Witness ==
    \E m, n \in Managers :
       /\ FromUdidCall(m) /\ pc[m] = "done" /\ loc[m].result = "CallerError"
       /\ ListCall(n) /\ pc[n] = "done" /\ loc[n].dropped # {}
       /\ loc[m].conns = {} /\ loc[n].conns = {}

Mac == UdidDestination("mac")

MacCall(m) == loc[m].op \in {"from_udid", "connect"} /\ loc[m].arg = Mac

\* C17 as stated: "mac" bypasses the registry entirely - a from_udid or a
\* connect with it spawns no companion and adds no registry entry.
C17_AsStated ==
    [][\A m \in Managers :
         MacCall(m) /\ (SpawnLaunch(m) \/ SpawnAdd(m)) =>
            registry' = registry /\ spawned' = spawned]_vars

\* C17, amended: "mac" bypasses the local enumeration only. A from_udid or a
\* connect with it never asks the local enumerator for the target type and
\* never ends with the unknown-device error; from_udid takes a registry
\* entry whose udid is "mac" when there is one, and otherwise, like connect
\* always, goes straight to the launcher when the manager has one; the
\* record of a successful spawn is registered at the socket address derived
\* from "mac".
C17_MacSkipsEnumeration ==
    /\ [](\A m \in Managers :
            MacCall(m) =>
               /\ loc[m].enum = 0
               /\ pc[m] # "sp_type"
               /\ loc[m].result # "UnknownDeviceError")
    /\ [][\A m \in Managers :
            FromUdid(m, Mac) =>
               IF \E c \in registry : c.udid = "mac"
               THEN pc'[m] = "fu_build" /\ loc'[m].companion \subseteq registry
               ELSE pc'[m] = IF hasCompanion[m] THEN "sp_launch" ELSE "done"]_vars
    /\ [][\A m \in Managers :
            Connect(m, Mac) =>
               pc'[m] = IF hasCompanion[m] THEN "sp_launch" ELSE "done"]_vars
    /\ [][\A m \in Managers :
            MacCall(m) /\ SpawnAdd(m) =>
               \E c \in registry' \ registry :
                  c.address = DomainSocketAddress("mac") /\ c.is_local /\ c.pid \in alive]_vars

\* C17, a case of it: from_udid("mac") found no entry, launched a companion
\* without enumerating the local targets, registered it and is connected
C17_Witness ==
    \E m \in Managers :
       /\ FromUdidCall(m) /\ loc[m].arg = Mac /\ pc[m] = "fu_yield"
       /\ loc[m].launched = 1 /\ loc[m].enum = 0
       /\ TheCompanion(m) \in registry
       /\ TheCompanion(m).address = DomainSocketAddress("mac")

Settled(m) == {d.via : d \in loc[m].connected} \cup {c.address : c \in loc[m].dropped}

\* C18: join before merge. list_targets starts with the registry snapshot
\* and the local targets in hand; each describe task settles once, with a
\* description or a failure, and until then adds nothing to the
\* descriptions; the merge runs when no task is left in flight, and the
\* companion descriptions of its result are those of the tasks that
\* succeeded: every one of them comes from such a task, and every udid such
\* a task reported is in the result.
C18_JoinBeforeMerge ==
    /\ [](\A m \in Managers :
            pc[m] = "lt_describe" =>
               {c.address : c \in loc[m].pending} \cap Settled(m) = {})
    /\ [][\A m \in Managers : \A only \in OnlyFilters :
            ListTargets(m, only) =>
               /\ loc'[m].pending = registry
               /\ loc'[m].local = ListLocalTargets(m, only)
               /\ loc'[m].connected = {} /\ loc'[m].dropped = {}]_vars
    /\ [][\A m \in Managers :
            ListTargetsMerge(m) =>
               /\ loc[m].pending = {}
               /\ {d \in loc'[m].ret : d.via # NoAddress} \subseteq loc[m].connected
               /\ UdidsOf(loc[m].connected) \subseteq UdidsOf(loc'[m].ret)]_vars

\* C18, a case of it: a snapshot of two companions with different udids,
\* both described, both in the result
C18_Witness ==
    \E m \in Managers :
       /\ ListCall(m) /\ pc[m] = "done"
       /\ \E d1, d2 \in loc[m].ret :
             d1.via # NoAddress /\ d2.via # NoAddress /\ d1.udid # d2.udid

\* C19: with prune_dead_companion=False no step of list_targets changes the
\* registry, whatever it holds and whichever describes fail; a task whose
\* describe fails still adds no description, and the call still returns
\* normally, with no description from a companion whose describe failed.
C19_PreserveUnreachable ==
    /\ [](\A m \in Managers :
            ~prune[m] /\ ListCall(m) /\ pc[m] = "done" =>
               /\ loc[m].result = "ok"
               /\ {d.via : d \in loc[m].ret} \cap {c.address : c \in loc[m].dropped} = {})
    /\ [][\A m \in Managers :
            ~prune[m] /\ ((\E only \in OnlyFilters : ListTargets(m, only))
                            \/ (\E c \in loc[m].pending : CompanionToTarget(m, c))
                            \/ ListTargetsMerge(m)) =>
               registry' = registry]_vars
    /\ [][\A m \in Managers : \A c \in loc[m].pending :
            ~prune[m] /\ CompanionToTarget(m, c) /\ c \in loc'[m].dropped =>
               loc'[m].connected = loc[m].connected]_vars

\* C19, a case of it: a manager that does not prune has returned from
\* list_targets with one companion described and another dropped, and the
\* dropped one is still registered
C19_Witness ==
    \E m \in Managers :
       /\ ~prune[m] /\ ListCall(m) /\ pc[m] = "done" /\ loc[m].result = "ok"
       /\ \E d \in loc[m].ret : d.via # NoAddress
       /\ \E c \in loc[m].dropped : c \in registry

IsSpawnedEntry(c) == c.is_local /\ c.pid # NoPid

\* C20: a successful spawn registers exactly one record, at an address made
\* from the udid alone. The record has is_local true, the pid of the
\* process this spawn launched and the socket address of the udid; its
\* registration leaves one entry at that address, itself, and every entry
\* at another address as it was; so the registry never holds two spawned
\* (is_local, pid-carrying) entries for one udid, and a repeated spawn for a
\* udid replaces the record of the earlier one.
C20_SpawnRegistersOne ==
    /\ [](\A c1, c2 \in registry :
            IsSpawnedEntry(c1) /\ IsSpawnedEntry(c2) /\ c1.udid = c2.udid => c1 = c2)
    /\ [][\A m \in Managers :
            SpawnAdd(m) =>
               LET c == TheCompanion(m)
               IN /\ c.address = DomainSocketAddress(Udid(m))
                  /\ c.udid = Udid(m) /\ c.is_local
                  /\ c.pid \in 1..Len(spawned)
                  /\ spawned[c.pid] = [by |-> m, udid |-> Udid(m)]
                  /\ \A p \in 1..Len(spawned) : spawned[p].by = m => p <= c.pid
                  /\ {e \in registry' : e.address = c.address} = {c}
                  /\ {e \in registry' : e.address # c.address} =
                        {e \in registry : e.address # c.address}]_vars

\* C20, a case of it: a second spawn for a udid has put its record in the
\* place of the first one's, whose process is still running
C20_Witness ==
    \E m \in Managers : \E c \in registry : \E p \in alive :
       /\ loc[m].op = "connect" /\ pc[m] = "done" /\ loc[m].ret = {c}
       /\ IsSpawnedEntry(c) /\ c.pid # p /\ c.pid \in alive
       /\ spawned[p].udid = c.udid
       /\ \A e \in registry : e.pid # p

\* C21: list_targets never removes a registry record that was registered
\* after its snapshot was taken: the record a describe task removes from
\* the registry, if any, is the very record whose describe failed.
C21_AsStated ==
    [][\A m \in Managers : \A c \in loc[m].pending :
         CompanionToTarget(m, c) => registry \ registry' \subseteq {c}]_vars

\* from_udid took its companion from the registry, it did not spawn it
SelectedExisting(m) == FromUdidCall(m) /\ pc[m] = "fu_build" /\ loc[m].cont = ""

\* C22: resolve does not heal a dead entry. When from_udid has selected a
\* registry entry, by udid or as the sole one, the open of the connection
\* to it leaves the registry and the processes as they are, launches
\* nothing, and fails whenever the companion is unreachable, with the
\* connect error as the outcome of the call; a from_udid for a udid that
\* still has an entry selects an entry again and does not spawn, the same
\* after a failed resolve as before it.
C22_ResolveDoesNotHeal ==
    /\ [](\A m \in Managers : SelectedExisting(m) => loc[m].launched = 0)
    /\ [][\A m \in Managers :
            SelectedExisting(m) /\ FromUdidBuild(m) =>
               /\ registry' = registry /\ spawned' = spawned /\ alive' = alive
               /\ loc'[m].launched = 0
               /\ \/ pc'[m] = "done" /\ loc'[m].result = "ConnectError"
                  \/ pc'[m] = "fu_yield" /\ Reachable(TheCompanion(m).address)]_vars
    /\ [][\A m \in Managers : \A u \in Udids :
            /\ FromUdid(m, UdidDestination(u))
            /\ \E c \in registry : c.udid = u
            => /\ SelectedExisting(m)'
               /\ loc'[m].companion \subseteq {c \in registry : c.udid = u}
               /\ registry' = registry /\ spawned' = spawned]_vars

\* C22, a case of it: a resolve by udid and then a resolve with no udid
\* have both failed at the open, nothing was launched, and the entry they
\* selected is still the registry's only one
C22_Witness ==
    \E m, n \in Managers : \E c \in registry :
       /\ m # n /\ registry = {c} /\ spawned = <<>>
       /\ FromUdidCall(m) /\ pc[m] = "done" /\ loc[m].result = "ConnectError"
       /\ loc[m].arg = UdidDestination(c.udid)
       /\ FromUdidCall(n) /\ pc[n] = "done" /\ loc[n].result = "ConnectError"
       /\ loc[n].arg = NoUdid

====
